---------------------------- MODULE Spec2Model ----------------------------
(*************************************************************************)
(* Login front-end: the error-message normalizer                         *)
(* (ErrorParserService.extractMessage), the credential submitter         *)
(* (LoginComponent.submit) and the token store (AuthService).            *)
(*                                                                       *)
(* JavaScript values are tagged tuples, the tag first, so that values of *)
(* different kinds are always comparable:                                *)
(*   <<"undefined">>  <<"null">>  <<"boolean", b>>  <<"number", n>>      *)
(*   <<"string", s>>  <<"array", seq>>  <<"object", proto, fields>>      *)
(* An object carries the prototype that decides its string coercion      *)
(* ("Object": a plain or JSON-parsed object, "Error", "TypeError", ...:  *)
(* an instance of that error class,                                      *)
(* "null": an object String() cannot convert), and its own properties as *)
(* a function from property names to values.                             *)
(* <<"throw", name>> is the abrupt completion of an expression.          *)
(*************************************************************************)
EXTENDS Integers, Sequences, FiniteSets, TLC

VARIABLES
    arg,        \* extractMessage: the `error` argument of the current call
    ret,        \* extractMessage: NotReturned, the returned value, or a throw
    fedBack,    \* extractMessage: TRUE when arg is the output of the previous call
    password,   \* LoginComponent.form: the value of the required password control
    loading,    \* LoginComponent.loading
    error,      \* LoginComponent.error: Null or the message shown
    success,    \* LoginComponent.success
    calls,      \* the submit() invocations so far, each with its position
    navigations,\* the router.navigate(['/']) calls made so far
    storage,    \* localStorage: key -> Null (no item) or the stored string
    notifications, \* NotificationService.notifications$.value
    timers,     \* the setTimeout callbacks of addNotification: id -> position
    nextId,     \* the notifications created so far, plus one
    dismissed   \* the ids removeNotification was called with from outside

-----------------------------------------------------------------------------
(* JavaScript values *)

Undefined == <<"undefined">>
Null == <<"null">>
Bool(b) == <<"boolean", b>>
Num(n) == <<"number", n>>
Str(s) == <<"string", s>>
Arr(elems) == <<"array", elems>>
Obj(proto, fields) == <<"object", proto, fields>>
Throw(name) == <<"throw", name>>

NoFields == [k \in {} |-> Undefined]

Kind(v) == v[1]
IsThrow(v) == Kind(v) = "throw"
IsString(v) == Kind(v) = "string"
IsNullish(v) == Kind(v) \in {"undefined", "null"}

\* typeof v
TypeOf(v) ==
    CASE Kind(v) = "null" -> "object"
      [] Kind(v) = "array" -> "object"
      [] OTHER -> Kind(v)

\* Array.isArray(v)
IsArray(v) == Kind(v) = "array"

\* ToBoolean(v): the test of `if (v)` and of `a && b`
Truthy(v) ==
    CASE Kind(v) \in {"undefined", "null"} -> FALSE
      [] Kind(v) = "boolean" -> v[2]
      [] Kind(v) = "number" -> v[2] # 0
      [] Kind(v) = "string" -> v[2] # ""
      [] OTHER -> TRUE

\* v.k for a v that is not null or undefined (own data properties only;
\* primitives and arrays have none of the names the normalizer reads)
Get(v, k) ==
    IF IsNullish(v) THEN Throw("TypeError")
    ELSE IF Kind(v) = "object" /\ k \in DOMAIN v[3] THEN v[3][k]
    ELSE Undefined

\* v?.k
OptGet(v, k) == IF IsNullish(v) THEN Undefined ELSE Get(v, k)


-----------------------------------------------------------------------------
(* String coercion: String(v) and the conversions of a template literal *)

Digits == "0123456789"
DigitChar(d) == SubSeq(Digits, d + 1, d + 1)
IsDigit(c) == \E d \in 0..9 : DigitChar(d) = c
DigitValue(c) == CHOOSE d \in 0..9 : DigitChar(d) = c

RECURSIVE NatToString(_)
NatToString(n) ==
    IF n < 10 THEN DigitChar(n)
    ELSE NatToString(n \div 10) \o DigitChar(n % 10)

\* Number::toString for the integers
NumberToString(n) == IF n < 0 THEN "-" \o NatToString(-n) ELSE NatToString(n)

\* a ++ sep ++ b for two string conversions, or the first of their throws
ThenConcat(a, sep, b) ==
    IF IsThrow(a) THEN a
    ELSE IF IsThrow(b) THEN b
    ELSE Str(a[2] \o sep \o b[2])

RECURSIVE StringOf(_)
RECURSIVE JoinFrom(_, _)

\* Array.prototype.join(","): null and undefined elements give "", the
\* others their string coercion
JoinFrom(elems, i) ==
    IF i > Len(elems) THEN Str("")
    ELSE ThenConcat(IF IsNullish(elems[i]) THEN Str("") ELSE StringOf(elems[i]),
                    IF i < Len(elems) THEN "," ELSE "",
                    JoinFrom(elems, i + 1))

\* Error.prototype.toString of an instance of an error class: its name,
\* and its message when it has one
NameAndMessage(name, msg) ==
    IF IsThrow(msg) THEN msg
    ELSE IF msg[2] = "" THEN Str(name)
    ELSE Str(name \o ": " \o msg[2])

ErrorToString(name, message) ==
    NameAndMessage(name, IF Kind(message) = "undefined" THEN Str("") ELSE StringOf(message))

\* String(v): a string value, or a TypeError for an object that cannot be
\* converted to a primitive
StringOf(v) ==
    CASE Kind(v) = "undefined" -> Str("undefined")
      [] Kind(v) = "null" -> Str("null")
      [] Kind(v) = "boolean" -> Str(IF v[2] THEN "true" ELSE "false")
      [] Kind(v) = "number" -> Str(NumberToString(v[2]))
      [] Kind(v) = "string" -> v
      [] Kind(v) = "array" -> JoinFrom(v[2], 1)
      [] Kind(v) = "object" /\ v[2] = "Object" -> Str("[object Object]")
      [] Kind(v) = "object" /\ v[2] = "null" -> Throw("TypeError")
      [] OTHER -> ErrorToString(v[2], Get(v, "message"))

\* `${a}: ${b}`
FieldMessageTemplate(a, b) == ThenConcat(StringOf(a), ": ", StringOf(b))

-----------------------------------------------------------------------------
(* JSON.parse, a recursive-descent parser over the characters of the text. *)
(* Numbers are the integers (no fraction or exponent part) and the string  *)
(* escapes are \" \\ \/ \n \t \r \f; the texts of this model use no other. *)
(* Each step hands its result to the next as a parameter.                  *)

\* the character at position i, "" past the end of the text
CharAt(s, i) == IF 1 <= i /\ i <= Len(s) THEN SubSeq(s, i, i) ELSE ""

StartsWith(s, i, lit) ==
    /\ i + Len(lit) - 1 <= Len(s)
    /\ SubSeq(s, i, i + Len(lit) - 1) = lit

Parsed(v, next) == [ok |-> TRUE, val |-> v, pos |-> next]
SyntaxError == [ok |-> FALSE, val |-> Undefined, pos |-> 0]

IsWhitespace(c) == c \in {" ", "\t", "\n", "\r"}

RECURSIVE SkipWhitespace(_, _)
SkipWhitespace(s, i) ==
    IF IsWhitespace(CharAt(s, i)) THEN SkipWhitespace(s, i + 1) ELSE i

Escapes == {"\"", "\\", "/", "n", "t", "r", "f"}
Unescape(e) ==
    CASE e = "n" -> "\n"
      [] e = "t" -> "\t"
      [] e = "r" -> "\r"
      [] e = "f" -> "\f"
      [] OTHER -> e

\* the characters of a string literal after its opening quote
RECURSIVE ParseChars(_, _, _)
ParseChars(s, i, acc) ==
    LET c == CharAt(s, i)
    IN  IF c = "" THEN SyntaxError
        ELSE IF c = "\"" THEN Parsed(Str(acc), i + 1)
        ELSE IF c = "\\" THEN
            IF CharAt(s, i + 1) \in Escapes
            THEN ParseChars(s, i + 2, acc \o Unescape(CharAt(s, i + 1)))
            ELSE SyntaxError
        ELSE IF c \in {"\n", "\t", "\r", "\f"} THEN SyntaxError
        ELSE ParseChars(s, i + 1, acc \o c)

\* the digits of a number that does not start with 0
RECURSIVE ParseDigits(_, _, _)
ParseDigits(s, i, n) ==
    IF IsDigit(CharAt(s, i))
    THEN ParseDigits(s, i + 1, 10 * n + DigitValue(CharAt(s, i)))
    ELSE Parsed(Num(n), i)

UnsignedNumber(s, i) ==
    IF ~IsDigit(CharAt(s, i)) THEN SyntaxError
    ELSE IF CharAt(s, i) = "0" THEN Parsed(Num(0), i + 1)
    ELSE ParseDigits(s, i, 0)

Negated(r) == IF r.ok THEN Parsed(Num(0 - r.val[2]), r.pos) ELSE r

ParseNumber(s, i) ==
    IF CharAt(s, i) = "-" THEN Negated(UnsignedNumber(s, i + 1))
    ELSE UnsignedNumber(s, i)

RECURSIVE ParseValue(_, _)
RECURSIVE ParseElements(_, _, _)
RECURSIVE ParseMembers(_, _, _)

\* after the elements acc of an array, at position j: "," and the next
\* element, or "]"
ElementsNext(s, j, acc) ==
    IF CharAt(s, j) = "," THEN ParseElements(s, j + 1, acc)
    ELSE IF CharAt(s, j) = "]" THEN Parsed(Arr(acc), j + 1)
    ELSE SyntaxError

ElementParsed(s, v, acc) ==
    IF ~v.ok THEN SyntaxError
    ELSE ElementsNext(s, SkipWhitespace(s, v.pos), Append(acc, v.val))

\* the elements of an array after "[" or ","
ParseElements(s, i, acc) == ElementParsed(s, ParseValue(s, i), acc)

\* after the members of an object, at position j: "," and the next
\* member, or "}"
MembersNext(s, j, fields) ==
    IF CharAt(s, j) = "," THEN ParseMembers(s, j + 1, fields)
    ELSE IF CharAt(s, j) = "}" THEN Parsed(Obj("Object", fields), j + 1)
    ELSE SyntaxError

\* a repeated key keeps its last value
MemberParsed(s, key, v, fields) ==
    IF ~v.ok THEN SyntaxError
    ELSE MembersNext(s, SkipWhitespace(s, v.pos), (key :> v.val) @@ fields)

MemberColon(s, key, c, fields) ==
    IF CharAt(s, c) = ":" THEN MemberParsed(s, key, ParseValue(s, c + 1), fields)
    ELSE SyntaxError

MemberKeyParsed(s, k, fields) ==
    IF ~k.ok THEN SyntaxError
    ELSE MemberColon(s, k.val[2], SkipWhitespace(s, k.pos), fields)

MemberKey(s, i, fields) ==
    IF CharAt(s, i) = "\"" THEN MemberKeyParsed(s, ParseChars(s, i + 1, ""), fields)
    ELSE SyntaxError

\* the members of an object after "{" or ","
ParseMembers(s, i, fields) == MemberKey(s, SkipWhitespace(s, i), fields)

ObjectBody(s, j) ==
    IF CharAt(s, j) = "}" THEN Parsed(Obj("Object", NoFields), j + 1)
    ELSE ParseMembers(s, j, NoFields)

ArrayBody(s, j) ==
    IF CharAt(s, j) = "]" THEN Parsed(Arr(<<>>), j + 1)
    ELSE ParseElements(s, j, <<>>)

ValueAt(s, i) ==
    LET c == CharAt(s, i)
    IN  CASE c = "{" -> ObjectBody(s, SkipWhitespace(s, i + 1))
          [] c = "[" -> ArrayBody(s, SkipWhitespace(s, i + 1))
          [] c = "\"" -> ParseChars(s, i + 1, "")
          [] c = "-" \/ IsDigit(c) -> ParseNumber(s, i)
          [] StartsWith(s, i, "true") -> Parsed(Bool(TRUE), i + 4)
          [] StartsWith(s, i, "false") -> Parsed(Bool(FALSE), i + 5)
          [] StartsWith(s, i, "null") -> Parsed(Null, i + 4)
          [] OTHER -> SyntaxError

ParseValue(s, i) == ValueAt(s, SkipWhitespace(s, i))

\* the whole text must be one value
WholeText(text, r) ==
    IF r.ok /\ SkipWhitespace(text, r.pos) = Len(text) + 1 THEN r ELSE SyntaxError

\* JSON.parse(text): [ok |-> TRUE, val |-> the value], or ok = FALSE where
\* JSON.parse throws a SyntaxError
JSONParse(text) == WholeText(text, ParseValue(text, 1))

-----------------------------------------------------------------------------
(* ErrorParserService.extractMessage *)

Return(v) == [returned |-> TRUE, val |-> v]
Continue(obj) == [returned |-> FALSE, val |-> obj]

\* a variant that goes on to the shape rules where the text is not JSON
ParsedOrContinue(parsed, fallback) ==
    IF parsed.ok THEN Continue(parsed.val) ELSE Continue(fallback)

\* a variant that returns errorObj, still null, where the text is not JSON
ParsedOrReturnErrorObj(parsed, fallback) ==
    IF parsed.ok THEN Continue(parsed.val) ELSE Return(Null)

\* try { errorObj = JSON.parse(text) } catch { return fallback }
ParsedOrReturn(parsed, fallback) ==
    IF parsed.ok THEN Continue(parsed.val) ELSE Return(fallback)

\* a variant without step 2: the message of an object is never decoded
SelectWithoutNestedParse(err) ==
    IF TypeOf(err) = "string" THEN ParsedOrReturn(JSONParse(err[2]), err)
    ELSE Continue(err)

\* Steps 1 to 3: either an early return (the text that is not JSON) or
\* the working object errorObj
SelectWorkingObject(err) ==
    IF TypeOf(err) = "string" THEN ParsedOrReturn(JSONParse(err[2]), err)
    ELSE IF Truthy(OptGet(err, "message")) /\ TypeOf(OptGet(err, "message")) = "string"
        THEN ParsedOrReturn(JSONParse(OptGet(err, "message")[2]), OptGet(err, "message"))
    ELSE Continue(err)

\* the condition of step 4
HasErrorsArray(errorObj) ==
    LET errors == OptGet(errorObj, "errors")
    IN  Truthy(errors) /\ IsArray(errors) /\ Len(errors[2]) > 0

\* the body of step 4, for firstError = errorObj.errors[0]; reading a
\* property of a null or undefined firstError is a TypeError
FormatFirstError(firstError) ==
    LET field == Get(firstError, "field")
        message == Get(firstError, "message")
    IN  IF IsThrow(field) THEN field
        ELSE IF Truthy(field) /\ Truthy(message)
            THEN FieldMessageTemplate(field, message)
        ELSE IF Truthy(message) THEN message
        ELSE StringOf(firstError)

\* a variant that tries `error` before `message`
ApplyShapeRulesErrorFirst(err, errorObj) ==
    IF HasErrorsArray(errorObj)
        THEN FormatFirstError(OptGet(errorObj, "errors")[2][1])
    ELSE IF Truthy(OptGet(errorObj, "error"))
            /\ TypeOf(OptGet(errorObj, "error")) = "string"
        THEN OptGet(errorObj, "error")
    ELSE IF Truthy(OptGet(errorObj, "message"))
            /\ TypeOf(OptGet(errorObj, "message")) = "string"
        THEN OptGet(errorObj, "message")
    ELSE StringOf(err)

\* a variant that tries `message` before `errors`
ApplyShapeRulesMessageFirst(err, errorObj) ==
    IF Truthy(OptGet(errorObj, "message"))
            /\ TypeOf(OptGet(errorObj, "message")) = "string"
        THEN OptGet(errorObj, "message")
    ELSE IF HasErrorsArray(errorObj)
        THEN FormatFirstError(OptGet(errorObj, "errors")[2][1])
    ELSE IF Truthy(OptGet(errorObj, "error"))
            /\ TypeOf(OptGet(errorObj, "error")) = "string"
        THEN OptGet(errorObj, "error")
    ELSE StringOf(err)

\* a variant whose fallback coerces the working object, not the input
ApplyShapeRulesCoerceWorking(err, errorObj) ==
    IF HasErrorsArray(errorObj)
        THEN FormatFirstError(OptGet(errorObj, "errors")[2][1])
    ELSE IF Truthy(OptGet(errorObj, "message"))
            /\ TypeOf(OptGet(errorObj, "message")) = "string"
        THEN OptGet(errorObj, "message")
    ELSE IF Truthy(OptGet(errorObj, "error"))
            /\ TypeOf(OptGet(errorObj, "error")) = "string"
        THEN OptGet(errorObj, "error")
    ELSE StringOf(errorObj)

\* Steps 4 to 6 and the fallback, on the working object
ApplyShapeRules(err, errorObj) ==
    IF HasErrorsArray(errorObj)
        THEN FormatFirstError(OptGet(errorObj, "errors")[2][1])
    ELSE IF Truthy(OptGet(errorObj, "message"))
            /\ TypeOf(OptGet(errorObj, "message")) = "string"
        THEN OptGet(errorObj, "message")
    ELSE IF Truthy(OptGet(errorObj, "error"))
            /\ TypeOf(OptGet(errorObj, "error")) = "string"
        THEN OptGet(errorObj, "error")
    ELSE StringOf(err)

\* the body of the outer try, after steps 1 to 3
AfterSelect(err, step) ==
    IF step.returned THEN step.val ELSE ApplyShapeRules(err, step.val)

TryBody(err) == AfterSelect(err, SelectWorkingObject(err))

\* the final catch
CatchFinal(err) ==
    IF TypeOf(err) = "string" THEN err ELSE StringOf(err)

\* try { body } catch { final catch }
OrCatch(err, body) == IF IsThrow(body) THEN CatchFinal(err) ELSE body

\* extractMessage(err): the value returned, or <<"throw", _>> when the
\* call completes abruptly
extractMessage(err) == OrCatch(err, TryBody(err))

-----------------------------------------------------------------------------
(* JSON.stringify, as the server and the layers in between encode a payload *)

RECURSIVE EscapeFrom(_, _)
EscapeFrom(s, i) ==
    LET c == CharAt(s, i)
    IN  IF c = "" THEN ""
        ELSE (CASE c = "\"" -> "\\\""
                [] c = "\\" -> "\\\\"
                [] c = "\n" -> "\\n"
                [] c = "\t" -> "\\t"
                [] c = "\r" -> "\\r"
                [] c = "\f" -> "\\f"
                [] OTHER -> c) \o EscapeFrom(s, i + 1)

Quote(s) == "\"" \o EscapeFrom(s, 1) \o "\""

\* the order in which a payload's properties are written
PropertyOrder == <<"errors", "field", "message", "error", "code">>

RECURSIVE JSONStringify(_)
RECURSIVE StringifyElements(_, _)
RECURSIVE StringifyMembers(_, _, _)

StringifyElements(elems, i) ==
    IF i > Len(elems) THEN ""
    ELSE (IF i > 1 THEN "," ELSE "")
            \o (IF Kind(elems[i]) = "undefined" THEN "null" ELSE JSONStringify(elems[i]))
            \o StringifyElements(elems, i + 1)

StringifyMembers(fields, i, first) ==
    IF i > Len(PropertyOrder) THEN ""
    ELSE LET k == PropertyOrder[i]
             written == k \in DOMAIN fields /\ Kind(fields[k]) # "undefined"
         IN  (IF written
                 THEN (IF first THEN "" ELSE ",") \o Quote(k) \o ":" \o JSONStringify(fields[k])
                 ELSE "")
             \o StringifyMembers(fields, i + 1, first /\ ~written)

JSONStringify(v) ==
    CASE Kind(v) = "null" -> "null"
      [] Kind(v) = "boolean" -> IF v[2] THEN "true" ELSE "false"
      [] Kind(v) = "number" -> NumberToString(v[2])
      [] Kind(v) = "string" -> Quote(v[2])
      [] Kind(v) = "array" -> "[" \o StringifyElements(v[2], 1) \o "]"
      [] Kind(v) = "object" -> "{" \o StringifyMembers(v[3], 1, TRUE) \o "}"

-----------------------------------------------------------------------------
(* The RawError values handed to extractMessage (its parameter is `any`) *)

\* the longest `errors` array of a payload
MaxErrors == 2

Absent == <<"absent">>
Prop(k, v) == IF v = Absent THEN NoFields ELSE k :> v

\* an object that String() cannot convert to a primitive: one without a
\* prototype, or one whose toString is not callable
Unprintable == Obj("null", NoFields)

\* validation-failure records, each optionally carrying field and message,
\* and the malformed elements a server may put in their place
FieldValues == {Absent, Str("email"), Str(""), Num(7)}
ElementMessages == {Absent, Str("Campo obrigatorio"), Str(""), Num(42)}
ValidationRecords ==
    {Obj("Object", Prop("field", f) @@ Prop("message", m)) :
        f \in FieldValues, m \in ElementMessages}
JsonFirstErrors == ValidationRecords \cup {Null, Num(5), Str("Senha fraca")}
ObjectFirstErrors ==
    JsonFirstErrors \cup
        {Undefined, Unprintable,
         Obj("Object", [field |-> Unprintable, message |-> Str("Campo obrigatorio")]),
         Obj("Object", [message |-> Obj("Object", [code |-> Num(1)])])}
LaterErrors ==
    {Obj("Object", [field |-> Str("password"), message |-> Str("Senha fraca")]), Null}
LaterSeqs == UNION {[1..n -> LaterErrors] : n \in 0..(MaxErrors - 1)}
ErrorsArrays(firsts) == {Arr(<<f>> \o rest) : f \in firsts, rest \in LaterSeqs}
NoErrorsArray == {Absent, Arr(<<>>), Str("invalid")}

Payload(proto, es, m, e) ==
    Obj(proto, Prop("errors", es) @@ Prop("message", m) @@ Prop("error", e))

\* the payloads of one prototype: those with a validation-error sequence,
\* and those without with every combination of message and error
Payloads(proto, firsts, messages, errors) ==
    {Payload(proto, es, m, e) :
        es \in ErrorsArrays(firsts),
        m \in {Absent, Str("Email invalido")},
        e \in {Absent, Str("Servidor indisponivel")}}
    \cup {Payload(proto, es, m, e) : es \in NoErrorsArray, m \in messages, e \in errors}

JsonMessages == {Absent, Str("Email invalido"), Str(""), Num(404), Null}
JsonErrors ==
    {Absent, Str("Servidor indisponivel"), Str(""), Num(500),
     Str("{\"message\":\"Email invalido\"}")}

\* response bodies: the JSON documents a server sends
Bodies == Payloads("Object", JsonFirstErrors, JsonMessages, JsonErrors)

PlainTexts ==
    {"Email invalido", "", "undefined", "[object Object]", "{bad json",
     "Login failed: 500", "Failed to fetch"}
JsonTexts ==
    {JSONStringify(b) : b \in Bodies}
    \cup {"404", "null", "true", "\"Conta desativada\"", "[]", "{}", "{\"code\":1}",
          "{\"message\": \"Email invalido\"}", "[{\"message\":\"Email invalido\"}]"}
\* a JSON document nested as a string in the message or error of another
NestedTexts ==
    {JSONStringify(Obj("Object", [message |-> Str(JSONStringify(b))])) : b \in
        {Obj("Object", [error |-> Str("Email invalido")]),
         Obj("Object", [message |-> Str("Email invalido")])}}
Texts == PlainTexts \cup JsonTexts \cup NestedTexts

Primitives ==
    {Undefined, Null, Bool(TRUE), Bool(FALSE), Num(0), Num(404),
     Arr(<<>>), Arr(<<Str("a"), Null, Num(1)>>), Arr(<<Unprintable>>)}

\* objects passed as they are: parsed bodies, Error instances and objects
\* that cannot be converted to a string
ObjectMessages == JsonMessages \cup {Unprintable}
ObjectErrors == JsonErrors
Objects ==
    UNION {Payloads(proto, ObjectFirstErrors, ObjectMessages, ObjectErrors) :
        proto \in {"Object", "Error", "null"}}

\* objects whose message is a text, JSON or not, next to fields of their own
Wrappers ==
    {Payload(proto, es, Str(t), e) :
        proto \in {"Object", "Error"},
        es \in {Absent, Arr(<<Obj("Object", [field |-> Str("name"), message |-> Str("outer")])>>)},
        t \in Texts \ {""},
        e \in {Absent, Str("outer error")}}
    \cup {Payload("null", Absent, Str(t), Absent) : t \in {"Email invalido", "{\"code\":1}"}}

RawErrors == {Str(t) : t \in Texts} \cup Primitives \cup Objects \cup Wrappers

-----------------------------------------------------------------------------
(* NotificationService *)

\* the notifications the model creates
MaxNotifications == 2

extractVars == <<arg, ret, fedBack>>
loginVars == <<password, loading, error, success, calls, navigations, storage>>
notifyVars == <<notifications, timers, nextId, dismissed>>

\* the service after construction: new BehaviorSubject([])
InitNotify ==
    /\ notifications = <<>>
    /\ timers = <<>>
    /\ nextId = 1
    /\ dismissed = {}

\* generateId(): the time and a random number in base 36, a new id at
\* every call
generateId == nextId

Notification(id, type, duration) == [id |-> id, type |-> type, duration |-> duration]

\* a variant that removes by position: current.splice(index of id, 1),
\* where the index of an id that is not there is -1, the last position
WithoutIdSplice(current, id) ==
    IF \E k \in DOMAIN current : current[k].id = id
    THEN SelectSeq(current, LAMBDA n : n.id # id)
    ELSE SubSeq(current, 1, Len(current) - 1)

\* current.filter((n) => n.id !== id)
WithoutId(current, id) == SelectSeq(current, LAMBDA n : n.id # id)

\* a variant that never starts a timer
addNotificationNoTimer(notification) ==
    /\ notifications' = Append(notifications, notification)
    /\ timers' = timers

\* addNotification(notification): the notification goes to the end of the
\* list, with a timer when its duration is truthy
addNotification(notification) ==
    /\ notifications' = Append(notifications, notification)
    /\ timers' = IF notification.duration # 0
                 THEN (notification.id :> "pending") @@ timers
                 ELSE timers

\* error, success, warning and info: a notification of that type with a
\* new id, and the duration of the call
Notify(type, duration) ==
    /\ nextId <= MaxNotifications
    /\ addNotification(Notification(generateId, type, duration))
    /\ nextId' = nextId + 1
    /\ UNCHANGED dismissed
    /\ UNCHANGED <<extractVars, loginVars>>

NotifyError(duration) == Notify("error", duration)
NotifySuccess(duration) == Notify("success", duration)
NotifyWarning(duration) == Notify("warning", duration)
NotifyInfo(duration) == Notify("info", duration)

\* removeNotification(id), called from outside the service
removeNotification(id) ==
    /\ notifications' = WithoutId(notifications, id)
    /\ dismissed' = dismissed \cup {id}
    /\ UNCHANGED <<timers, nextId>>
    /\ UNCHANGED <<extractVars, loginVars>>

\* the timer of notification id fires: its callback calls
\* removeNotification(id)
TimerFires(id) ==
    /\ id \in DOMAIN timers
    /\ timers[id] = "pending"
    /\ timers' = [timers EXCEPT ![id] = "fired"]
    /\ notifications' = WithoutId(notifications, id)
    /\ UNCHANGED <<nextId, dismissed>>
    /\ UNCHANGED <<extractVars, loginVars>>

-----------------------------------------------------------------------------
(* AuthService and LoginComponent *)

\* the submit() invocations the model follows
MaxSubmits == 2

\* new Error(message), and the errors the platform raises
NewError(name, message) == Obj(name, [message |-> Str(message)])

\* the responses of POST /auth/login: a status and the text of the body
Response(status, body) == [status |-> status, body |-> body]
Responses ==
    {Response(200, "{\"token\":\"tok1\",\"expiresIn\":3600}"),
     Response(200, "{\"token\":\"tok2\"}"),
     Response(200, "{\"user\":{}}"),
     Response(200, "<html>"),
     Response(401, "Credenciais invalidas"),
     Response(401, "{\"message\":\"Email ou senha invalidos\"}"),
     Response(422, "{\"errors\":[{\"field\":\"email\",\"message\":\"Email invalido\"}]}"),
     Response(404, "404"),
     Response(500, "")}

\* resp.ok
Ok(resp) == 200 <= resp.status /\ resp.status <= 299

NoResponse == Response(0, "")

\* the positions of a submit() invocation: returned at once on the invalid
\* form, or waiting for fetch, for the body text, for the body JSON, for
\* the navigation, or finished
Invocation(pc, resp) == [pc |-> pc, resp |-> resp]
Outstanding(c) == c.pc \in {"fetch", "text", "json"}

\* form.invalid: the password control is required
FormInvalid == password = ""

\* localStorage.getItem, setItem (the value is stored as a string) and
\* removeItem
GetItem(key) == storage[key]
\* a variant that writes to another store and leaves localStorage alone
SetItemElsewhere(key, value) == storage
SetItem(key, value) == [storage EXCEPT ![key] = StringOf(value)]
\* a variant that empties the whole store, as localStorage.clear() does
RemoveItemClear(key) == [k \in DOMAIN storage |-> Null]
RemoveItem(key) == [storage EXCEPT ![key] = Null]

\* AuthService.getToken()
getToken == GetItem("auth_token")

vars ==
    <<arg, ret, fedBack, password, loading, error, success, calls, navigations,
      storage, notifications, timers, nextId, dismissed>>

\* the user types in the password control
EditPassword(p) ==
    /\ password' = p
    /\ password' # password
    /\ UNCHANGED <<loading, error, success, calls, navigations, storage>>
    /\ UNCHANGED <<extractVars, notifyVars>>

\* a variant of submit() without the check of form.invalid
SubmitUnchecked ==
    /\ Len(calls) < MaxSubmits
    /\ loading' = TRUE
    /\ error' = Null
    /\ calls' = Append(calls, Invocation("fetch", NoResponse))
    /\ UNCHANGED <<password, success, navigations, storage>>
    /\ UNCHANGED <<extractVars, notifyVars>>

\* submit(), up to the await of login(), which runs up to its await of fetch
Submit ==
    /\ Len(calls) < MaxSubmits
    /\ IF FormInvalid
       THEN /\ calls' = Append(calls, Invocation("invalid", NoResponse))
            /\ UNCHANGED <<loading, error>>
       ELSE /\ loading' = TRUE
            /\ error' = Null
            /\ calls' = Append(calls, Invocation("fetch", NoResponse))
    /\ UNCHANGED <<password, success, navigations, storage>>
    /\ UNCHANGED <<extractVars, notifyVars>>

\* the catch block of submit() in invocation i, for the value message
\* that extractMessage(err) produced: a throw leaves the block at once
ShowError(i, message) ==
    /\ calls' = [calls EXCEPT ![i].pc = "done"]
    /\ IF IsThrow(message)
       THEN UNCHANGED <<error, loading>>
       ELSE error' = message /\ loading' = FALSE

\* a variant of the catch block that shows the message of the caught error
\* as it is, without extractMessage
SubmitCatchMessageOnly(i, err) ==
    ShowError(i, IF Truthy(OptGet(err, "message")) THEN OptGet(err, "message")
                 ELSE StringOf(err))

\* the catch block of submit(), for the error err caught by invocation i
SubmitCatch(i, err) == ShowError(i, extractMessage(err))

\* fetch resolves with a response: login() goes on to read the body
FetchResolves(i, resp) ==
    /\ calls[i].pc = "fetch"
    /\ calls' = [calls EXCEPT ![i] =
                    Invocation(IF Ok(resp) THEN "json" ELSE "text", resp)]
    /\ UNCHANGED <<password, loading, error, success, navigations, storage>>
    /\ UNCHANGED <<extractVars, notifyVars>>

\* a variant in which the failed login drops the stored token
FetchRejectsClearing(i) ==
    /\ calls[i].pc = "fetch"
    /\ SubmitCatch(i, NewError("TypeError", "Failed to fetch"))
    /\ storage' = RemoveItem("auth_token")
    /\ UNCHANGED <<password, success, navigations>>
    /\ UNCHANGED <<extractVars, notifyVars>>

\* fetch rejects (no connection): login() rejects, submit() catches
FetchRejects(i) ==
    /\ calls[i].pc = "fetch"
    /\ SubmitCatch(i, NewError("TypeError", "Failed to fetch"))
    /\ UNCHANGED <<password, success, navigations, storage>>
    /\ UNCHANGED <<extractVars, notifyVars>>

\* a variant that leaves the status out of the text
LoginFailedTextNoStatus(status) == "Login failed"

\* the `Login failed: ${resp.status}` of login()
LoginFailedText(status) == "Login failed: " \o NumberToString(status)

\* resp.text() resolves for a response that is not ok: login() throws
\* new Error(text || `Login failed: ${resp.status}`), submit() catches it
TextRead(i) ==
    /\ calls[i].pc = "text"
    /\ SubmitCatch(i, NewError("Error",
            IF calls[i].resp.body # "" THEN calls[i].resp.body
            ELSE LoginFailedText(calls[i].resp.status)))
    /\ UNCHANGED <<password, success, navigations, storage>>
    /\ UNCHANGED <<extractVars, notifyVars>>

\* resp.json() settles for a response that is ok.  A body that is not JSON
\* rejects it and submit() catches; otherwise login() stores a truthy
\* data.token and returns, and submit() goes on up to its await of
\* router.navigate
JsonSettles(i, data) ==
    IF ~data.ok
    THEN /\ SubmitCatch(i, NewError("SyntaxError", "Unexpected token"))
         /\ UNCHANGED <<success, navigations, storage>>
    ELSE /\ storage' = IF Truthy(OptGet(data.val, "token"))
                       THEN SetItem("auth_token", OptGet(data.val, "token"))
                       ELSE storage
         /\ success' = TRUE
         /\ loading' = FALSE
         /\ navigations' = navigations + 1
         /\ calls' = [calls EXCEPT ![i].pc = "navigate"]
         /\ UNCHANGED error

JsonRead(i) ==
    /\ calls[i].pc = "json"
    /\ JsonSettles(i, JSONParse(calls[i].resp.body))
    /\ UNCHANGED password
    /\ UNCHANGED <<extractVars, notifyVars>>

\* router.navigate(['/']) resolves: submit() returns
NavigateResolves(i) ==
    /\ calls[i].pc = "navigate"
    /\ calls' = [calls EXCEPT ![i].pc = "done"]
    /\ UNCHANGED <<password, loading, error, success, navigations, storage>>
    /\ UNCHANGED <<extractVars, notifyVars>>

\* router.navigate(['/']) rejects (a guard or resolver of the route
\* throws): submit() catches
NavigateRejects(i) ==
    /\ calls[i].pc = "navigate"
    /\ SubmitCatch(i, NewError("Error", "Cannot activate route"))
    /\ UNCHANGED <<password, success, navigations, storage>>
    /\ UNCHANGED <<extractVars, notifyVars>>

\* AuthService.logout()
Logout ==
    /\ storage' = RemoveItem("auth_token")
    /\ UNCHANGED <<password, loading, error, success, calls, navigations>>
    /\ UNCHANGED <<extractVars, notifyVars>>

-----------------------------------------------------------------------------
(* A caller of extractMessage *)

NotReturned == <<"pending">>

\* a call of extractMessage(arg) runs to its completion
Call ==
    /\ ret = NotReturned
    /\ ret' = extractMessage(arg)
    /\ UNCHANGED <<arg, fedBack>>
    /\ UNCHANGED <<loginVars, notifyVars>>

\* the caller passes the value it got back to extractMessage once more
FeedBack ==
    /\ ret # NotReturned
    /\ ~IsThrow(ret)
    /\ ~fedBack
    /\ arg' = ret
    /\ ret' = NotReturned
    /\ fedBack' = TRUE
    /\ UNCHANGED <<loginVars, notifyVars>>

-----------------------------------------------------------------------------
(* Specifications *)

\* the component and the service after construction
InitLogin ==
    /\ password = ""
    /\ loading = FALSE
    /\ error = Null
    /\ success = FALSE
    /\ calls = <<>>
    /\ navigations = 0
    /\ storage \in {[auth_token |-> t, theme |-> Str("dark")] : t \in {Null, Str("tok0")}}

Init ==
    /\ InitLogin
    /\ InitNotify
    /\ arg = Undefined
    /\ ret = NotReturned
    /\ fedBack = FALSE

Next ==
    \/ \E p \in {"", "secret"} : EditPassword(p)
    \/ Submit
    \/ \E i \in DOMAIN calls : \E resp \in Responses : FetchResolves(i, resp)
    \/ \E i \in DOMAIN calls : FetchRejects(i)
    \/ \E i \in DOMAIN calls : TextRead(i)
    \/ \E i \in DOMAIN calls : JsonRead(i)
    \/ \E i \in DOMAIN calls : NavigateResolves(i)
    \/ \E i \in DOMAIN calls : NavigateRejects(i)
    \/ Logout

Spec == Init /\ [][Next]_vars

\* extractMessage alone, on every RawError of the model
InitExtract ==
    /\ arg \in RawErrors
    /\ ret = NotReturned
    /\ fedBack = FALSE
    /\ password = ""
    /\ loading = FALSE
    /\ error = Null
    /\ success = FALSE
    /\ calls = <<>>
    /\ navigations = 0
    /\ storage = [auth_token |-> Null, theme |-> Str("dark")]
    /\ InitNotify

NextExtract == Call \/ FeedBack

SpecExtract == InitExtract /\ [][NextExtract]_vars

\* the notification service alone
InitNotifications ==
    /\ InitNotify
    /\ arg = Undefined
    /\ ret = NotReturned
    /\ fedBack = FALSE
    /\ password = ""
    /\ loading = FALSE
    /\ error = Null
    /\ success = FALSE
    /\ calls = <<>>
    /\ navigations = 0
    /\ storage = [auth_token |-> Null, theme |-> Str("dark")]

NextNotifications ==
    \/ \E duration \in {0, 5000} : NotifyError(duration)
    \/ \E duration \in {0, 3000} : NotifySuccess(duration)
    \/ \E duration \in {0, 4000} : NotifyWarning(duration)
    \/ \E duration \in {0, 3000} : NotifyInfo(duration)
    \/ \E id \in 1..MaxNotifications : removeNotification(id)
    \/ \E id \in 1..MaxNotifications : TimerFires(id)

SpecNotifications == InitNotifications /\ [][NextNotifications]_vars

\* the same with the timers of setTimeout: a pending timer fires in the end
SpecNotificationsFair ==
    SpecNotifications /\ \A id \in 1..MaxNotifications : WF_vars(TimerFires(id))

-----------------------------------------------------------------------------
(* The vocabulary of the properties: a payload as the specification reads *)
(* it, independent of how extractMessage reads it                         *)

\* extractMessage(arg) has completed, with ret
Called == ret # NotReturned

\* the property k of an object, Undefined where there is none
Own(v, k) == IF Kind(v) = "object" /\ k \in DOMAIN v[3] THEN v[3][k] ELSE Undefined

NonEmptyString(v) == Kind(v) = "string" /\ v[2] # ""
NonEmptyArray(v) == Kind(v) = "array" /\ Len(v[2]) > 0

\* the text t is valid JSON, and the value it encodes
ValidJson(t) == JSONParse(t).ok
Decoded(t) == JSONParse(t).val

\* the input has a working object (steps 1 to 3 did not return), and which
HasWorkingObject(x) ==
    IF IsString(x) THEN ValidJson(x[2])
    ELSE NonEmptyString(Own(x, "message")) => ValidJson(Own(x, "message")[2])
WorkingObject(x) ==
    IF IsString(x) THEN Decoded(x[2])
    ELSE IF NonEmptyString(Own(x, "message")) THEN Decoded(Own(x, "message")[2])
    ELSE x

\* "<field>: <message>"
Joined(field, message) == Str(field[2] \o ": " \o message[2])

-----------------------------------------------------------------------------
(* Properties of extractMessage, under SpecExtract *)

\* C1: extractMessage never raises: every call completes with a return
\* value, whatever the input.
C1_NeverRaises == Called => ~IsThrow(ret)

\* C2: every value extractMessage returns is a string.
C2_ReturnsString == (Called /\ ~IsThrow(ret)) => IsString(ret)

\* C3: a string input that is not valid JSON is returned exactly as it is.
C3_NonJsonTextUnchanged ==
    (Called /\ IsString(arg) /\ ~ValidJson(arg[2])) => ret = arg

C3_Witness ==
    /\ Called
    /\ arg = Str("{bad json")
    /\ ret = arg

\* C4: a string input that parses as a JSON object with a non-empty string
\* message and no non-empty errors array gives that message.
C4_JsonObjectMessage ==
    (/\ Called
     /\ IsString(arg)
     /\ ValidJson(arg[2])
     /\ Kind(Decoded(arg[2])) = "object"
     /\ NonEmptyString(Own(Decoded(arg[2]), "message"))
     /\ ~NonEmptyArray(Own(Decoded(arg[2]), "errors")))
    => ret = Own(Decoded(arg[2]), "message")

\* the body carries an error next to its message, and the message is shown
C4_Witness ==
    /\ Called
    /\ arg = Str("{\"message\":\"Email invalido\",\"error\":\"Servidor indisponivel\"}")
    /\ ret = Str("Email invalido")

\* the decoded message of arg, an object that is not a string
NestedObject == Decoded(Own(arg, "message")[2])
HasNestedObject ==
    /\ ~IsString(arg)
    /\ NonEmptyString(Own(arg, "message"))
    /\ ValidJson(Own(arg, "message")[2])
    /\ Kind(NestedObject) = "object"
NestedFirstError == Own(NestedObject, "errors")[2][1]

\* C5: for an input object whose message is a string holding a JSON-encoded
\* object, the errors, message and error rules are applied to the decoded
\* object and not to the outer one: the first validation error of the
\* decoded object, else its message, else its error, else the coercion of
\* the input, whatever errors and error the outer object carries.
C5_NestedMessageDecoded ==
    (Called /\ HasNestedObject) =>
        /\ (/\ NonEmptyArray(Own(NestedObject, "errors"))
            /\ NonEmptyString(Own(NestedFirstError, "field"))
            /\ NonEmptyString(Own(NestedFirstError, "message")))
           => ret = Joined(Own(NestedFirstError, "field"), Own(NestedFirstError, "message"))
        /\ (/\ ~NonEmptyArray(Own(NestedObject, "errors"))
            /\ NonEmptyString(Own(NestedObject, "message")))
           => ret = Own(NestedObject, "message")
        /\ (/\ ~NonEmptyArray(Own(NestedObject, "errors"))
            /\ ~NonEmptyString(Own(NestedObject, "message"))
            /\ NonEmptyString(Own(NestedObject, "error")))
           => ret = Own(NestedObject, "error")
        /\ (/\ ~NonEmptyArray(Own(NestedObject, "errors"))
            /\ ~NonEmptyString(Own(NestedObject, "message"))
            /\ ~NonEmptyString(Own(NestedObject, "error")))
           => ret = StringOf(arg)

\* the outer object has an error and errors of its own, the decoded one
\* only an error, and the decoded error is shown
C5_Witness ==
    /\ Called
    /\ HasNestedObject
    /\ NonEmptyString(Own(arg, "error"))
    /\ NonEmptyArray(Own(arg, "errors"))
    /\ DOMAIN NestedObject[3] = {"error"}
    /\ ret = Own(NestedObject, "error")
    /\ ret # Own(arg, "error")

\* the working object of arg and the first of its validation errors
HasErrors ==
    /\ HasWorkingObject(arg)
    /\ NonEmptyArray(Own(WorkingObject(arg), "errors"))
FirstError == Own(WorkingObject(arg), "errors")[2][1]

\* an object with every validation error after the first removed
FirstOnly(obj) ==
    Obj(obj[2], [k \in DOMAIN obj[3] |->
        IF k = "errors" THEN Arr(<<obj[3][k][2][1]>>) ELSE obj[3][k]])
\* the text of a JSON document as JSON.stringify writes it
Canonical(t) == JSONStringify(Decoded(t)) = t
\* arg is written so, where its working object comes from a text
CanonicalInput ==
    IF IsString(arg) THEN Canonical(arg[2])
    ELSE NonEmptyString(Own(arg, "message")) => Canonical(Own(arg, "message")[2])
\* arg with the later validation errors of its working object removed
WithoutLaterErrors ==
    IF IsString(arg) THEN Str(JSONStringify(FirstOnly(Decoded(arg[2]))))
    ELSE IF NonEmptyString(Own(arg, "message"))
        THEN Obj(arg[2], [arg[3] EXCEPT !["message"] =
                Str(JSONStringify(FirstOnly(Decoded(Own(arg, "message")[2]))))])
    ELSE FirstOnly(arg)

\* C6: when the working object has a non-empty errors array the result is
\* determined by its first element only: "<field>: <message>" where that
\* element carries both as non-empty strings, and the same result with the
\* later elements removed.
C6_FirstErrorOnly ==
    (Called /\ HasErrors /\ CanonicalInput) =>
        /\ (/\ NonEmptyString(Own(FirstError, "field"))
            /\ NonEmptyString(Own(FirstError, "message")))
           => ret = Joined(Own(FirstError, "field"), Own(FirstError, "message"))
        /\ ret = extractMessage(WithoutLaterErrors)

\* the working object's message and error
Message == Own(WorkingObject(arg), "message")
ErrorField == Own(WorkingObject(arg), "error")

\* C7 as stated: errors beats message, a string message beats a string
\* error, and error is returned only without a non-empty errors array and
\* without a string message.
C7_PriorityAnyString ==
    (Called /\ HasWorkingObject(arg)) =>
        /\ (HasErrors /\ NonEmptyString(Message)) => ret # Message
        /\ (~HasErrors /\ IsString(Message) /\ IsString(ErrorField)) => ret = Message
        /\ (NonEmptyString(ErrorField) /\ ret = ErrorField)
           => (~HasErrors /\ (~IsString(Message) \/ Message = ErrorField))

\* C7: the shape rules are applied in a fixed priority, first match wins: a
\* non-empty errors array beats message and error (the result is the first
\* validation error's "<field>: <message>" where it carries both), a
\* non-empty string message beats a string error, and error is returned
\* exactly when there is no non-empty errors array and no non-empty string
\* message.
C7_Priority ==
    (Called /\ HasWorkingObject(arg)) =>
        /\ (HasErrors /\ NonEmptyString(Message)) => ret # Message
        /\ (HasErrors /\ NonEmptyString(ErrorField)) => ret # ErrorField
        /\ (/\ HasErrors
            /\ NonEmptyString(Own(FirstError, "field"))
            /\ NonEmptyString(Own(FirstError, "message")))
           => ret = Joined(Own(FirstError, "field"), Own(FirstError, "message"))
        /\ (~HasErrors /\ NonEmptyString(Message)) => ret = Message
        /\ (~HasErrors /\ ~NonEmptyString(Message) /\ NonEmptyString(ErrorField))
           => ret = ErrorField
        /\ (NonEmptyString(ErrorField) /\ ret = ErrorField)
           => (~HasErrors /\ (~NonEmptyString(Message) \/ Message = ErrorField))

\* all three fields are there and the first validation error is shown
C7_Witness ==
    /\ Called
    /\ HasErrors
    /\ NonEmptyString(Message)
    /\ NonEmptyString(ErrorField)
    /\ NonEmptyString(Own(FirstError, "field"))
    /\ NonEmptyString(Own(FirstError, "message"))
    /\ ret = Joined(Own(FirstError, "field"), Own(FirstError, "message"))

\* C8: when no rule matches (no non-empty errors array, no string message,
\* no string error on the working object) the result is the string
\* coercion of the original input, not of the working object: "undefined"
\* for undefined, "null" for null, and the original text for a JSON text
\* without recognised fields.
C8_FallbackCoercesInput ==
    Called =>
        /\ (/\ HasWorkingObject(arg)
            /\ ~HasErrors
            /\ ~IsString(Message)
            /\ ~IsString(ErrorField))
           => ret = StringOf(arg)
        /\ arg = Undefined => ret = Str("undefined")
        /\ arg = Null => ret = Str("null")

\* a JSON text without recognised fields comes back as it was written, not
\* as the coercion of the object it encodes
C8_Witness ==
    /\ Called
    /\ arg = Str("{\"code\":1}")
    /\ Kind(WorkingObject(arg)) = "object"
    /\ ret = arg

\* the text t is a JSON document in which a rule of extractMessage matches
Recognised(t) ==
    /\ ValidJson(t)
    /\ \/ NonEmptyArray(Own(Decoded(t), "errors"))
       \/ NonEmptyString(Own(Decoded(t), "message"))
       \/ NonEmptyString(Own(Decoded(t), "error"))

\* C9 as stated: for every input, the output fed back in comes back
\* unchanged.
C9_IdempotentAlways == (fedBack /\ Called) => ret = arg

\* C9: an output that is a string in which no rule matches (in particular
\* one that is not valid JSON) comes back unchanged when it is fed back in.
C9_IdempotentOnPlainOutput ==
    (fedBack /\ Called /\ IsString(arg) /\ ~Recognised(arg[2])) => ret = arg

\* the output of a first call was fed back and came back unchanged
C9_Witness ==
    /\ fedBack
    /\ Called
    /\ arg = Str("email: Campo obrigatorio")
    /\ ret = arg

\* C17: when the working object has a non-empty errors array whose first
\* element has no message (a record without one, null, undefined or a
\* primitive), the result is the string coercion of that first element.
C17_FirstErrorCoerced ==
    (Called /\ HasErrors /\ Own(FirstError, "message") = Undefined)
    => ret = StringOf(FirstError)

\* arg is an object, not a string, with a string message that is not JSON
HasPlainMessage ==
    /\ Kind(arg) = "object"
    /\ IsString(Own(arg, "message"))
    /\ ~ValidJson(Own(arg, "message")[2])

\* C18 as stated: any string-typed message that is not valid JSON is
\* returned as it is, whenever the call returns.
C18_AnyPlainMessage ==
    (Called /\ HasPlainMessage /\ ~IsThrow(ret)) => ret = Own(arg, "message")

\* C18: for an input object, not a string, whose message is a non-empty
\* string that is not valid JSON, the result is that message as it is,
\* whatever errors and error the object carries.
C18_PlainMessage ==
    (Called /\ HasPlainMessage /\ Own(arg, "message") # Str(""))
    => ret = Own(arg, "message")

\* the object carries validation errors and an error next to its message,
\* and the message is the result
C18_Witness ==
    /\ Called
    /\ HasPlainMessage
    /\ NonEmptyArray(Own(arg, "errors"))
    /\ NonEmptyString(Own(arg, "error"))
    /\ ret = Str("Email invalido")
    /\ ret = Own(arg, "message")

\* C26: for an input object, not a string, with a non-empty string
\* message, the result is that message itself or the text extracted from
\* the JSON-decoded message, which is what extractMessage gives for the
\* message alone; it is never the string coercion of the whole input.
C26_MessageNeverLost ==
    (/\ Called
     /\ ~IsThrow(ret)
     /\ Kind(arg) = "object"
     /\ NonEmptyString(Own(arg, "message")))
    => /\ ret = extractMessage(Own(arg, "message"))
       /\ ret # StringOf(arg)

-----------------------------------------------------------------------------
(* Properties of LoginComponent and AuthService, under Spec *)

OutstandingLogins == {i \in DOMAIN calls : Outstanding(calls[i])}

\* C10: re-entrant submission is disallowed: at most one login request is
\* outstanding in any reachable state.
C10_OneOutstandingLogin == Cardinality(OutstandingLogins) <= 1

\* invocation i leaves its login call through the catch of submit()
LoginFails(i) == Outstanding(calls[i]) /\ calls'[i].pc = "done"
\* invocation i leaves its login call with the data of the response
LoginSucceeds(i) == calls[i].pc = "json" /\ calls'[i].pc = "navigate"

\* the error the login call of invocation c rejects with, from where it is
Rejection(c) ==
    IF c.pc = "fetch" THEN NewError("TypeError", "Failed to fetch")
    ELSE IF c.pc = "text"
        THEN NewError("Error", IF c.resp.body # "" THEN c.resp.body
                               ELSE LoginFailedText(c.resp.status))
    ELSE NewError("SyntaxError", "Unexpected token")

\* C11: when the login call of a submit fails, the submit stores
\* extractMessage(caught error) in error and ends with loading = false; it
\* does not set success, does not navigate, and neither it nor any step
\* after it issues a login call for that submit again.
C11_FailedLogin ==
    [][\A i \in DOMAIN calls :
        /\ LoginFails(i) =>
            /\ error' = extractMessage(Rejection(calls[i]))
            /\ loading' = FALSE
            /\ success' = success
            /\ navigations' = navigations
            /\ Len(calls') = Len(calls)
            /\ \A j \in DOMAIN calls \ {i} : calls'[j] = calls[j]
        /\ calls[i].pc = "done" => calls'[i] = calls[i]]_vars

\* a submit was refused by the server with a JSON body and shows its message
C11_Witness ==
    /\ Len(calls) = 1
    /\ calls[1].pc = "done"
    /\ calls[1].resp.status = 401
    /\ error = Str("Email ou senha invalidos")
    /\ loading = FALSE
    /\ success = FALSE
    /\ navigations = 0

\* C12: when the login call of a submit succeeds, the submit sets
\* success = true and loading = false and then triggers the navigation to
\* '/', and error is null when it has done so.
C12_SuccessfulLogin ==
    [][\A i \in DOMAIN calls :
        LoginSucceeds(i) =>
            /\ success' = TRUE
            /\ loading' = FALSE
            /\ navigations' = navigations + 1
            /\ error' = Null]_vars

\* the token a response body carries, Undefined where it carries none
Token(body) == IF ValidJson(body) THEN Own(Decoded(body), "token") ELSE Undefined

\* C13: after login() resolves for a 2xx response whose body carries a
\* non-empty token, the auth_token slot holds exactly that token and
\* getToken() returns it; the slot changes afterwards only by a logout
\* (to null) or by a login that resolves with a token (to that token).
C13_TokenStored ==
    [][/\ \A i \in DOMAIN calls :
            (LoginSucceeds(i) /\ NonEmptyString(Token(calls[i].resp.body)))
            => /\ storage'["auth_token"] = Token(calls[i].resp.body)
               /\ getToken' = Token(calls[i].resp.body)
       /\ getToken' # getToken =>
            \/ UNCHANGED calls /\ getToken' = Null
            \/ \E i \in DOMAIN calls :
                /\ LoginSucceeds(i)
                /\ NonEmptyString(Token(calls[i].resp.body))
                /\ getToken' = Token(calls[i].resp.body)]_vars

\* a login stored its token, and the token is still there after a later
\* submit was refused
C13_Witness ==
    /\ Len(calls) = 2
    /\ calls[1].pc = "done"
    /\ Token(calls[1].resp.body) = Str("tok1")
    /\ calls[2].pc = "done"
    /\ calls[2].resp.status = 401
    /\ getToken = Str("tok1")

\* a step of the service that is not part of any submit and changes the
\* store: a logout
LogoutStep == UNCHANGED calls /\ storage' # storage

\* C14: after logout() getToken() returns null, and keeps returning null
\* until a login resolves with a token; logout() on an empty slot changes
\* nothing, and logout() touches no key other than auth_token.
C14_Logout ==
    [][/\ LogoutStep =>
            /\ getToken # Null
            /\ getToken' = Null
            /\ DOMAIN storage' = DOMAIN storage
            /\ \A k \in DOMAIN storage \ {"auth_token"} : storage'[k] = storage[k]
       /\ (getToken = Null /\ getToken' # Null) =>
            \E i \in DOMAIN calls :
                /\ LoginSucceeds(i)
                /\ NonEmptyString(Token(calls[i].resp.body))
                /\ getToken' = Token(calls[i].resp.body)]_vars

\* a login had stored its token, a logout removed it, and the other key of
\* the store is as it was
C14_Witness ==
    /\ \E i \in DOMAIN calls :
        /\ calls[i].pc \in {"navigate", "done"}
        /\ NonEmptyString(Token(calls[i].resp.body))
    /\ getToken = Null
    /\ storage["theme"] = Str("dark")

\* C16: the body of a failed login response is treated as the RawError:
\* for a non-2xx response with a non-empty body text t, the error that
\* submit stores is extractMessage(t).
C16_BodyIsRawError ==
    [][\A i \in DOMAIN calls :
        (/\ calls[i].pc = "text"
         /\ calls'[i].pc = "done"
         /\ calls[i].resp.body # "")
        => error' = extractMessage(Str(calls[i].resp.body))]_vars

\* C19: a submit that issues a login request ends with loading = false,
\* and until then loading is true in every state in which that request is
\* still outstanding.  This is the second half, a property of states.
C19_LoadingWhileOutstanding ==
    \A i \in DOMAIN calls : Outstanding(calls[i]) => loading = TRUE

\* C20: when the form is invalid (the required password is missing),
\* submit() issues no login request and leaves loading, error, success and
\* the token slot unchanged.
C20_InvalidFormNoRequest ==
    [][(FormInvalid /\ Len(calls') > Len(calls)) =>
        /\ ~Outstanding(calls'[Len(calls')])
        /\ \A j \in DOMAIN calls : calls'[j] = calls[j]
        /\ UNCHANGED <<loading, error, success, navigations, storage>>]_vars

\* a submit on the emptied form returned at once while the request of an
\* earlier submit was outstanding, and loading is still true
C20_Witness ==
    /\ Len(calls) = 2
    /\ calls[1].pc = "fetch"
    /\ calls[2].pc = "invalid"
    /\ loading = TRUE
    /\ password = ""

\* the message of the Error login() is to reject with for a response that
\* is not ok
RejectionMessage(resp) ==
    IF resp.body # "" THEN resp.body
    ELSE "Login failed: " \o NumberToString(resp.status)

\* C21: for every non-2xx response login() rejects with an Error whose
\* message is the body text where that is non-empty and
\* "Login failed: <status>" where it is empty, and never resolves with
\* data: it goes on to read the text, never the JSON, the submit ends in
\* its catch with that Error, and nothing is stored.
C21_NonOkRejects ==
    [][\A i \in DOMAIN calls :
        /\ (/\ calls[i].pc = "fetch"
            /\ calls'[i].resp # NoResponse
            /\ ~Ok(calls'[i].resp))
           => calls'[i].pc = "text"
        /\ (calls[i].pc = "text" /\ calls'[i] # calls[i]) =>
            /\ ~Ok(calls[i].resp)
            /\ calls'[i].pc = "done"
            /\ error' = extractMessage(NewError("Error", RejectionMessage(calls[i].resp)))
            /\ UNCHANGED <<storage, success, navigations>>]_vars

\* a response without a body was refused with the status in the text
C21_Witness ==
    /\ Len(calls) = 1
    /\ calls[1].pc = "done"
    /\ calls[1].resp.status = 500
    /\ calls[1].resp.body = ""
    /\ error = Str("Login failed: 500")
    /\ success = FALSE

\* C23: in every reachable state of the login component, success = true
\* and error # null never hold together.
C23_SuccessExcludesError == ~(success = TRUE /\ error # Null)

\* C24: a login() call that fails (a non-2xx response or a rejection of
\* the transport) leaves the auth_token slot exactly as it was before the
\* call: from the fetch to the failure no step of that call writes the
\* store.
C24_FailedLoginKeepsToken ==
    [][\A i \in DOMAIN calls :
        (/\ calls[i].pc \in {"fetch", "text"}
         /\ calls'[i] # calls[i]
         /\ calls'[i].pc \in {"text", "done"})
        => storage' = storage]_vars

\* a token stored before is still there after a refused and a rejected
\* login
C24_Witness ==
    /\ Len(calls) = 2
    /\ calls[1].pc = "done"
    /\ calls[1].resp.status = 401
    /\ calls[2].pc = "done"
    /\ calls[2].resp = NoResponse
    /\ getToken = Str("tok0")

\* C25: after a login() call that resolves, the auth_token slot holds the
\* token of that response and never a token stored earlier: the token of
\* the response where it carries one, and no token where it carries none.
C25_NoStaleToken ==
    [][\A i \in DOMAIN calls :
        LoginSucceeds(i) =>
            IF NonEmptyString(Token(calls[i].resp.body))
            THEN getToken' = Token(calls[i].resp.body)
            ELSE getToken' = Null]_vars

-----------------------------------------------------------------------------
(* Properties of NotificationService, under SpecNotifications *)

\* the ids in the list
Listed == {notifications[k].id : k \in DOMAIN notifications}
\* the ids removeNotification has been called with, from outside or by a timer
Removed == dismissed \cup {id \in DOMAIN timers : timers[id] = "fired"}

\* C15: removal is idempotent, for any interleaving of adds, manual
\* removals and timer firings: a removeNotification(id) for an id that is
\* not in the list (a timer firing after a manual removal, a second manual
\* removal, an id never created) removes nothing, so every notification
\* created whose own id was never removed is still in the list, in the
\* order of creation.
C15_RemovalIdempotent ==
    /\ \A id \in 1..(nextId - 1) : id \notin Removed => id \in Listed
    /\ \A k \in 1..(Len(notifications) - 1) :
        notifications[k].id < notifications[k + 1].id

\* notification 1 was removed by hand and its timer has fired as well,
\* and notification 2 is still there
C15_Witness ==
    /\ 1 \in dismissed
    /\ 1 \in DOMAIN timers
    /\ timers[1] = "fired"
    /\ Listed = {2}

\* notification id is in the list with a positive duration, with none
Expiring(id) ==
    \E k \in DOMAIN notifications :
        notifications[k].id = id /\ notifications[k].duration > 0
Persistent(id) ==
    \E k \in DOMAIN notifications :
        notifications[k].id = id /\ notifications[k].duration = 0

\* C22: every notification added with a positive duration is eventually
\* absent from the list, and is absent once its timer has fired, without
\* any manual removal; a notification added with duration 0 gets no timer
\* and leaves the list only in a removeNotification called with its id.
C22_Expiry ==
    /\ \A id \in 1..MaxNotifications :
        /\ Expiring(id) ~> (id \notin Listed)
        /\ [](Expiring(id) => (id \in DOMAIN timers /\ timers[id] = "pending"))
        /\ [](Persistent(id) => id \notin DOMAIN timers)
    /\ [][\A id \in 1..MaxNotifications :
            (Persistent(id) /\ id \notin Listed')
            => (id \in dismissed' /\ UNCHANGED timers)]_vars

\* notification 1 expired by its timer alone, and notification 2, added
\* without a duration, is still there
C22_Witness ==
    /\ 1 \in DOMAIN timers
    /\ timers[1] = "fired"
    /\ 1 \notin dismissed
    /\ Listed = {2}
    /\ Persistent(2)
    /\ 2 \notin DOMAIN timers

=============================================================================
